---------------------------- MODULE Spec2Model ----------------------------
(***************************************************************************)
(* Model of the spike-sorting workflow: one IntanFile session              *)
(* (IntanClass.py), the trigger configuration objects (TriggerClass.py,    *)
(* TimestampsClass.py), the probe wrapper (ProbeClass.py), the protocol    *)
(* (ProtocolClass.py), the sorter configuration (SorterClass.py) and the   *)
(* Pipeline (PipelineClass.py).                                            *)
(*                                                                         *)
(* Times are integers in microseconds: a sample index i of a stream        *)
(* sampled at f Hz is the timestamp (i * 1000000) \div f, exact for the    *)
(* frequencies used here.                                                  *)
(***************************************************************************)
EXTENDS Integers, Sequences, FiniteSets, TLC

VARIABLES
    adc,                    \* _adc_channel_recording: one sample sequence per ADC channel
    adc_frequency,          \* sampling frequency of the ADC stream (Hz)
    trigger_timestamps,     \* IntanFile.trigger_timestamps (microseconds)
    timestamps_parameters,  \* IntanFile._timestamps_parameters
    traces_read,            \* ADC channels (0-based) whose samples the last detection call read
    last_call,              \* the last operation called on the session and how it ended
    channel_ids,            \* IntanFile.channel_ids: ids of the amplifier channels
    probe_dataframe,        \* Probe._dataframe of the caller's Probe object
    probe,                  \* IntanFile._probe
    recording_probe,        \* probe attached to _signed_amplifier_channel_recording
    heap,                   \* the Protocol objects: the caller's and the Pipeline's copy
    protocol_built,         \* the caller's protocol as Protocol.__init__ built it
    pipeline,               \* the Pipeline object: _sorter, _protocol, output folders
    pc,                     \* position of the running Pipeline.__init__, "idle" when none runs
    run,                    \* number of Pipeline constructions started
    stages,                 \* stages the current (or last) pipeline run has reached
    pre_processed,          \* IntanFile._pre_processed_signed_amplifier_channel_recording
    sorting_results,        \* local sorting_results of the running pipeline
    sorting_dedup,          \* IntanFile._sorting_dedup
    analyzer_result,        \* local analyzer_result of the running pipeline
    computed_analyzer_result, \* IntanFile._computed_analyzer_result
    sorter_folders,         \* files in each sorter output folder, by folder path
    analyzer_folders        \* files in each analyzer output folder, by folder path

trigger_vars == <<adc, adc_frequency, trigger_timestamps, timestamps_parameters, traces_read>>
probe_vars == <<channel_ids, probe_dataframe, probe, recording_probe>>
protocol_vars == <<heap, protocol_built, pipeline>>
output_vars == <<pre_processed, sorting_results, sorting_dedup, analyzer_result,
                 computed_analyzer_result, sorter_folders, analyzer_folders>>
pipeline_vars == <<protocol_vars, pc, run, stages, output_vars>>
vars == <<trigger_vars, last_call, probe_vars, pipeline_vars>>

-----------------------------------------------------------------------------
(* Bounds of the model *)

SigLen == 6
MultiSigLen == 2
MaxAdcChannels == 2
MaxProbeRows == 3
MaxContactId == 2
MaxRuns == 2

-----------------------------------------------------------------------------
(* Input domains *)

Levels == {30000, 40000}
Thresholds == {35000, 40000}
Edges == {-1, 1}
MinIntervals == {0, 3000, 10000}
Frequencies == {1000, 2000}

NoParameters == [trigger |-> [threshold |-> 0, edge |-> 0, min_interval |-> 0],
                 trigger_channel_index |-> 0, set |-> FALSE]

Trigger(threshold, edge, min_interval) ==
    [threshold |-> threshold, edge |-> edge, min_interval |-> min_interval]

TimestampsParameters(trigger, trigger_channel_index) ==
    [trigger |-> trigger, trigger_channel_index |-> trigger_channel_index, set |-> TRUE]

SeqsUpTo(S, n) == UNION {[1..k -> S] : k \in 0..n}

Elements(seq) == {seq[k] : k \in 1..Len(seq)}

\* Recordings with one ADC channel of up to SigLen samples, and recordings of
\* 0..MaxAdcChannels channels that share one length MultiSigLen.
WideRecordings ==
    {<<s>> : s \in SeqsUpTo(Levels, SigLen)}
    \cup UNION {[1..n -> [1..MultiSigLen -> Levels]] : n \in 0..MaxAdcChannels}

WideParameters ==
    {TimestampsParameters(Trigger(th, e, mi), ci) :
        th \in Thresholds, e \in Edges, mi \in MinIntervals,
        ci \in -1..MaxAdcChannels}

-----------------------------------------------------------------------------
(* Trigger detection: IntanFile.generate_trigger_timestamps *)

\* Python indexing seq[i]: negative indices count from the end.
PyIndexOk(seq, i) == i >= -Len(seq) /\ i < Len(seq)
PyIndex(seq, i) == IF i >= 0 THEN seq[i + 1] ELSE seq[Len(seq) + i + 1]

\* The range check of the trigger channel index.
ChannelIndexInRangeNoLowerBound(channel_index, n) == channel_index < n
ChannelIndexInRange(channel_index, n) == ~(channel_index < 0 \/ channel_index >= n)

\* The channel whose traces are requested.
SelectedChannel(channel_index) == channel_index

\* signal < threshold, cast to int.
UnderThresholdInclusive(signal, threshold) ==
    [k \in 1..Len(signal) |-> IF signal[k] <= threshold THEN 1 ELSE 0]
UnderThreshold(signal, threshold) ==
    [k \in 1..Len(signal) |-> IF signal[k] < threshold THEN 1 ELSE 0]

\* np.diff: out[i] = x[i+1] - x[i] (0-based i), one element shorter than x.
Diff(x) == [k \in 1..(Len(x) - 1) |-> x[k + 1] - x[k]]

\* np.where(d == edge)[0]: the 0-based indices where d equals edge, ascending.
WhereEquals(d, edge) ==
    SelectSeq([k \in 1..Len(d) |-> k - 1], LAMBDA i : d[i + 1] = edge)

\* trigger_samples / frequency, in microseconds.
SamplesToTimeNextSample(samples, frequency) ==
    [k \in 1..Len(samples) |-> ((samples[k] + 1) * 1000000) \div frequency]
SamplesToTimeWholeSeconds(samples, frequency) ==
    [k \in 1..Len(samples) |-> (samples[k] \div frequency) * 1000000]
SamplesToTime(samples, frequency) ==
    [k \in 1..Len(samples) |-> (samples[k] * 1000000) \div frequency]

\* The candidate crossings of one signal.
CandidateTimestamps(signal, threshold, edge, frequency) ==
    SamplesToTime(WhereEquals(Diff(UnderThreshold(signal, threshold)), edge), frequency)

\* The forward scan over the candidates after the first one.
RECURSIVE KeepScanPreviousCandidate(_, _, _, _)
KeepScanPreviousCandidate(kept, previous, rest, min_interval) ==
    IF rest = <<>> THEN kept
    ELSE KeepScanPreviousCandidate(
            IF Head(rest) - previous >= min_interval
                THEN Append(kept, Head(rest)) ELSE kept,
            Head(rest), Tail(rest), min_interval)

RECURSIVE KeepScan(_, _, _)
KeepScan(kept, rest, min_interval) ==
    IF rest = <<>> THEN kept
    ELSE KeepScan(
            IF Head(rest) - kept[Len(kept)] >= min_interval
                THEN Append(kept, Head(rest)) ELSE kept,
            Tail(rest), min_interval)

\* Minimum inter-trigger interval filtering.
MinIntervalFilterSlidingWindow(timestamps, min_interval) ==
    IF min_interval > 0 /\ Len(timestamps) > 0
        THEN KeepScanPreviousCandidate(<<Head(timestamps)>>, Head(timestamps),
                                       Tail(timestamps), min_interval)
        ELSE timestamps
MinIntervalFilterNotApplied(timestamps, min_interval) == timestamps
MinIntervalFilter(timestamps, min_interval) ==
    IF min_interval > 0 /\ Len(timestamps) > 0
        THEN KeepScan(<<Head(timestamps)>>, Tail(timestamps), min_interval)
        ELSE timestamps

generate_trigger_timestamps(p) ==
    LET n == Len(adc)
        channel_index == p.trigger_channel_index
        selected == SelectedChannel(channel_index)
    IN  /\ pc = "idle"
        /\ timestamps_parameters' = p
        /\ UNCHANGED <<adc, adc_frequency, probe_vars, pipeline_vars>>
        /\ IF ~ChannelIndexInRange(channel_index, n)
             THEN \* raise ValueError(... out of range ...)
                  /\ last_call' = [op |-> "generate_trigger_timestamps",
                                   raised |-> "range_error"]
                  /\ traces_read' = {}
                  /\ UNCHANGED trigger_timestamps
             ELSE IF ~PyIndexOk(adc, selected)
             THEN \* channel_ids[channel_index] raises IndexError
                  /\ last_call' = [op |-> "generate_trigger_timestamps",
                                   raised |-> "index_error"]
                  /\ traces_read' = {}
                  /\ UNCHANGED trigger_timestamps
             ELSE LET signal == PyIndex(adc, selected)
                      read == IF selected >= 0 THEN selected ELSE n + selected
                  IN  /\ traces_read' = {read}
                      /\ IF Len(signal) = 1
                           THEN \* squeeze() gives a 0-d array, np.diff raises ValueError
                                /\ last_call' = [op |-> "generate_trigger_timestamps",
                                                 raised |-> "diff_error"]
                                /\ UNCHANGED trigger_timestamps
                           ELSE /\ trigger_timestamps' =
                                     MinIntervalFilter(
                                         CandidateTimestamps(signal, p.trigger.threshold,
                                                             p.trigger.edge, adc_frequency),
                                         p.trigger.min_interval)
                                /\ last_call' = [op |-> "generate_trigger_timestamps",
                                                 raised |-> "none"]

-----------------------------------------------------------------------------
(* Probe alignment: IntanFile.associate_probe *)

\* An identifier is a number held as an integer or as its decimal string.
Id(t, n) == [t |-> t, n |-> n]
IdTypes == {"int", "str"}

\* str(x) / astype(str): the decimal string of an identifier.
ToStr(id) == [id EXCEPT !.t = "str"]

NoProbe == [kind |-> "none", table |-> <<>>]
\* The caller's Probe object itself (ProbeClass.Probe), whose table is probe_dataframe.
ProbeWrapper == [kind |-> "wrapper", table |-> <<>>]
\* A probeinterface Probe built from an aligned table.
FromDataframe(df) == [kind |-> "aligned", table |-> df]

Injective(f) == \A a, b \in DOMAIN f : a # b => f[a] # f[b]

\* The tables a Probe object can hold: up to MaxProbeRows contacts, whose
\* device_channel_indices are unset (-1 everywhere) or a permutation of 0..m-1;
\* x is the position of the contact.
ProbeTables ==
    UNION {
        {[k \in 1..m |-> [contact_ids |-> Id(t, c[k]),
                          device_channel_indices |-> d[k],
                          x |-> 10 * k]] :
            c \in [1..m -> 0..MaxContactId],
            d \in {f \in [1..m -> 0..(m - 1)] : Injective(f)} \cup {[k \in 1..m |-> -1]}}
        : m \in 0..MaxProbeRows, t \in IdTypes}

\* The channel ids an amplifier stream can have: distinct, at least one.
RECURSIVE AscendingSeq(_)
AscendingSeq(S) ==
    IF S = {} THEN <<>>
    ELSE LET m == CHOOSE x \in S : \A y \in S : x <= y
         IN  <<m>> \o AscendingSeq(S \ {m})

ChannelIdLists ==
    {[k \in 1..Cardinality(S) |-> Id(t, AscendingSeq(S)[k])] :
        S \in (SUBSET (0..(MaxContactId + 1))) \ {{}}, t \in IdTypes}

\* probe_df["contact_ids"].astype(str)
NormalizeContactIds(df) ==
    [k \in 1..Len(df) |-> [df[k] EXCEPT !.contact_ids = ToStr(df[k].contact_ids)]]

\* probe_df[probe_df["contact_ids"].isin([str(ch) for ch in channel_ids])]
KeepContactsOfRecording(df, ids) ==
    SelectSeq(df, LAMBDA r : r.contact_ids \in {ToStr(ids[k]) : k \in 1..Len(ids)})

\* drop_duplicates(subset="contact_ids"): the first row of each contact id stays.
DropDuplicates(df) ==
    LET first(k) == \A j \in 1..(k - 1) : df[j].contact_ids # df[k].contact_ids
        RECURSIVE pick(_)
        pick(k) == IF k > Len(df) THEN <<>>
                   ELSE (IF first(k) THEN <<df[k]>> ELSE <<>>) \o pick(k + 1)
    IN  pick(1)

\* The count check of the aligned contacts against the recording channels.
CountsMismatchOnlyIfMore(n_probe_contacts, n_recording_channels) ==
    n_probe_contacts > n_recording_channels
CountsMismatch(n_probe_contacts, n_recording_channels) ==
    n_probe_contacts # n_recording_channels

\* sort_values(by="device_channel_indices"): the orders the sort can return
\* (rows with equal keys may come out in any order).
SortNotApplied(df) == {df}
SortValues(df) ==
    {[k \in 1..Len(df) |-> df[f[k]]] :
        f \in {g \in [1..Len(df) -> 1..Len(df)] :
                /\ Injective(g)
                /\ \A k \in 1..(Len(df) - 1) :
                      df[g[k]].device_channel_indices <= df[g[k + 1]].device_channel_indices}}

\* probe_df["device_channel_indices"] = range(len(probe_df))
Renumber(df) ==
    [k \in 1..Len(df) |-> [df[k] EXCEPT !.device_channel_indices = k - 1]]

associate_probe ==
    LET normalized == NormalizeContactIds(probe_dataframe)
        probe_df == DropDuplicates(KeepContactsOfRecording(normalized, channel_ids))
    IN  /\ pc = "idle"
        /\ probe_dataframe' = normalized
        /\ UNCHANGED <<trigger_vars, channel_ids, pipeline_vars>>
        /\ IF CountsMismatch(Len(probe_df), Len(channel_ids))
             THEN \* raise ValueError(... incoherence ...)
                  /\ probe' = ProbeWrapper
                  /\ last_call' = [op |-> "associate_probe", raised |-> "alignment_error"]
                  /\ UNCHANGED recording_probe
             ELSE \E sorted \in SortValues(probe_df) :
                  /\ probe' = FromDataframe(Renumber(sorted))
                  /\ recording_probe' = probe'
                  /\ last_call' = [op |-> "associate_probe", raised |-> "none"]

-----------------------------------------------------------------------------
(* Protocol and Pipeline: ProtocolClass.py, SorterClass.py, PipelineClass.py *)

None == [kind |-> "none"]

\* Protocol.__init__: the params dictionary, its keys in insertion order.
Protocol(min_freq, max_freq) ==
    [preprocessing |->
        <<[name |-> "bandpass_filter",
           params |-> [freq_min |-> min_freq, freq_max |-> max_freq]]>>,
     postprocessing |->
        <<"random_spikes", "noise_levels", "correlograms", "waveforms", "templates",
          "amplitude_scalings", "spike_amplitudes", "unit_locations", "spike_locations",
          "template_similarity", "template_metrics", "quality_metrics">>]

CallerProtocols == {Protocol(400, 5000), Protocol(300, 6000)}

SorterNames == {"tridesclous2", "spykingcircus2"}

\* ss.get_default_sorter_params(sorter_name)
DefaultSorterParams(sorter_name) ==
    [detect_threshold |-> IF sorter_name = "tridesclous2" THEN 5 ELSE 4]

\* Sorter.__init__: name and param are plain attributes of the object.
Sorter(sorter_name) == [name |-> sorter_name, param |-> DefaultSorterParams(sorter_name)]

\* The Sorter objects given to Pipeline: as built, or with param edited by the
\* caller before the run.
Sorters ==
    {Sorter(n) : n \in SorterNames}
        \cup {[Sorter("tridesclous2") EXCEPT !.param.detect_threshold = 6]}

\* copy.deepcopy(protocol): the object the Pipeline keeps as _protocol.
SameObject(ref) == ref
DeepCopy(ref) == "pipeline"

\* d[key] = value on a dictionary kept as a sequence of entries in insertion order.
HasKey(d, key) == \E k \in 1..Len(d) : d[k].name = key
DictSet(d, key, value) ==
    IF HasKey(d, key)
        THEN [k \in 1..Len(d) |->
                IF d[k].name = key THEN [name |-> key, params |-> value] ELSE d[k]]
        ELSE Append(d, [name |-> key, params |-> value])
DictGet(d, key) == (CHOOSE e \in Elements(d) : e.name = key).params

\* len(trigger_timestamps) != 0
TriggersAlways(timestamps) == TRUE
TriggersDetected(timestamps) == Len(timestamps) # 0

\* The remove_artifacts entry.
RemoveArtifactsParams(timestamps) == [list_triggers |-> timestamps, mode |-> "zeros"]

OutputSorterFolder(name) == <<"Sorting_pipeline", name>>
OutputAnalyzerFolder(name) == <<"Analyzer_binary_pipeline", name>>

\* The files of one pipeline run in an output folder.
Files(r, complete) == {[run |-> r, complete |-> complete]}

\* remove_existing_folder=True of ss.run_sorter
KeepExistingFolder(files) == files
RemoveExistingFolder(files) == {}

\* overwrite=True of si.create_sorting_analyzer
Overwrite(files) == {}

\* The construction ends by an exception that reaches the caller: error is the
\* exception raised, library_error the one the library call ended with.
RaiseLoggedOnly(error, library_error) ==
    /\ pc' = pc
    /\ last_call' = [op |-> "Pipeline", raised |-> error, from |-> library_error]
    /\ UNCHANGED <<sorting_results, analyzer_result>>
RaiseFrom(error, library_error) ==
    /\ pc' = "idle"
    /\ last_call' = [op |-> "Pipeline", raised |-> error, from |-> library_error]
    /\ sorting_results' = None
    /\ analyzer_result' = None

Raise(error) == RaiseFrom(error, error)

\* Pipeline.__init__ up to the call of __remove_artifacts.
Pipeline_init(sorter) ==
    /\ pc = "idle"
    /\ run < MaxRuns
    /\ run' = run + 1
    /\ heap' = [heap EXCEPT !["pipeline"] = heap["caller"]]
    /\ pipeline' = [sorter |-> sorter,
                    protocol |-> DeepCopy("caller"),
                    output_sorter_folder |-> OutputSorterFolder(sorter.name),
                    output_analyzer_folder |-> OutputAnalyzerFolder(sorter.name)]
    /\ stages' = <<"Configured">>
    /\ pc' = "remove_artifacts"
    /\ last_call' = [op |-> "Pipeline", raised |-> "running"]
    /\ UNCHANGED <<trigger_vars, probe_vars, protocol_built, output_vars>>

\* Pipeline.__remove_artifacts
remove_artifacts ==
    /\ pc = "remove_artifacts"
    /\ heap' = IF TriggersDetected(trigger_timestamps)
                 THEN [heap EXCEPT ![pipeline.protocol].preprocessing =
                          DictSet(@, "remove_artifacts",
                                  RemoveArtifactsParams(trigger_timestamps))]
                 ELSE heap
    /\ stages' = Append(stages, "ArtifactsInjected")
    /\ pc' = "apply_preprocessing"
    /\ UNCHANGED <<trigger_vars, probe_vars, protocol_built, pipeline, run, last_call,
                   output_vars>>

\* Steps 1 and 2 of __pipeline_sorter_analyzer: preprocessing, probe re-attached.
apply_preprocessing ==
    /\ pc = "apply_preprocessing"
    /\ UNCHANGED <<trigger_vars, probe_vars, protocol_vars, run, sorting_dedup,
                   computed_analyzer_result, sorter_folders, analyzer_folders>>
    /\ \/ \* spre.apply_preprocessing_pipeline raises
          /\ Raise("preprocessing_error")
          /\ UNCHANGED <<stages, pre_processed>>
       \/ \* rec.set_probe is given the ProbeClass.Probe object and raises
          /\ probe.kind = "wrapper"
          /\ Raise("set_probe_error")
          /\ UNCHANGED <<stages, pre_processed>>
       \/ /\ probe.kind # "wrapper"
          /\ pre_processed' = [kind |-> "recording", run |-> run,
                               steps |-> heap[pipeline.protocol].preprocessing,
                               probe |-> probe]
          /\ stages' = Append(stages, "Preprocessed")
          /\ pc' = "run_sorter"
          /\ UNCHANGED <<last_call, sorting_results, analyzer_result>>

\* The outcomes of the sorting backend: the number of spikes it found.
SpikeCounts == {0, 1}

\* The keyword arguments of the ss.run_sorter call.
RunSorterArguments(p, recording) ==
    [sorter_name |-> p.sorter.name,
     recording |-> recording,
     folder |-> p.output_sorter_folder,
     remove_existing_folder |-> TRUE]

\* The parameters the backend sorts with: the ones of the call, its defaults
\* for the sorter name when the call carries none.
BackendParams(arguments) ==
    IF "params" \in DOMAIN arguments
        THEN arguments.params
        ELSE DefaultSorterParams(arguments.sorter_name)

\* Step 3: ss.run_sorter with remove_existing_folder=True.
run_sorter ==
    /\ pc = "run_sorter"
    /\ UNCHANGED <<trigger_vars, probe_vars, protocol_vars, run, pre_processed,
                   sorting_dedup, computed_analyzer_result, analyzer_folders>>
    /\ \/ \* the sorter raises after the existing folder was removed
          /\ Raise("sorter_error")
          /\ sorter_folders' = [sorter_folders EXCEPT ![pipeline.output_sorter_folder] =
                                   RemoveExistingFolder(@) \cup Files(run, FALSE)]
          /\ UNCHANGED stages
       \/ \E spikes \in SpikeCounts :
          LET arguments == RunSorterArguments(pipeline, pre_processed) IN
          /\ sorting_results' = [kind |-> "sorting", run |-> run, spikes |-> spikes,
                                 arguments |-> arguments,
                                 params |-> BackendParams(arguments)]
          /\ sorter_folders' = [sorter_folders EXCEPT ![pipeline.output_sorter_folder] =
                                   RemoveExistingFolder(@) \cup Files(run, TRUE)]
          /\ stages' = Append(stages, "Sorted")
          /\ pc' = "remove_duplicated_spikes"
          /\ UNCHANGED <<last_call, analyzer_result>>

\* Step 4: scur.remove_duplicated_spikes, stored on the session.
remove_duplicated_spikes ==
    /\ pc = "remove_duplicated_spikes"
    /\ UNCHANGED <<trigger_vars, probe_vars, protocol_vars, run, pre_processed,
                   computed_analyzer_result, sorter_folders, analyzer_folders>>
    /\ \/ /\ Raise("curation_error")
          /\ UNCHANGED <<stages, sorting_dedup>>
       \/ /\ sorting_dedup' = [kind |-> "sorting", run |-> run,
                               spikes |-> sorting_results.spikes]
          /\ stages' = Append(stages, "Deduplicated")
          /\ pc' = "create_sorting_analyzer"
          /\ UNCHANGED <<last_call, sorting_results, analyzer_result>>

\* The error create_sorting_analyzer ends with, "none" when it returns.
AnalyzerErrors(sorting) ==
    IF sorting.spikes = 0
        THEN {"ValueError: need at least one array to concatenate"}
        ELSE {"none", "ValueError: other", "OSError"}

\* The except clause of step 5.
TranslateAnyValueError(error) ==
    IF error \in {"ValueError: need at least one array to concatenate", "ValueError: other"}
        THEN "RuntimeError: sorting has no spikes"
        ELSE error
Translate(error) ==
    IF error = "ValueError: need at least one array to concatenate"
        THEN "RuntimeError: sorting has no spikes"
        ELSE error

\* Step 5: si.create_sorting_analyzer with overwrite=True.
create_sorting_analyzer ==
    /\ pc = "create_sorting_analyzer"
    /\ UNCHANGED <<trigger_vars, probe_vars, protocol_vars, run, pre_processed,
                   sorting_dedup, computed_analyzer_result, sorter_folders>>
    /\ \E error \in AnalyzerErrors(sorting_dedup) :
          IF error # "none"
            THEN /\ RaiseFrom(Translate(error), error)
                 /\ UNCHANGED stages
                 /\ \/ \* the library fails before it touches the folder
                       UNCHANGED analyzer_folders
                    \/ \* or after it has replaced it
                       analyzer_folders' =
                           [analyzer_folders EXCEPT ![pipeline.output_analyzer_folder] =
                               Overwrite(@) \cup Files(run, FALSE)]
            ELSE /\ analyzer_result' = [kind |-> "analyzer", run |-> run,
                                        extensions |-> <<>>]
                 /\ analyzer_folders' =
                        [analyzer_folders EXCEPT ![pipeline.output_analyzer_folder] =
                            Overwrite(@) \cup Files(run, TRUE)]
                 /\ pc' = "compute"
                 /\ UNCHANGED <<last_call, stages, sorting_results>>

\* Step 6: analyzer_result.compute, result stored on the session.
compute ==
    /\ pc = "compute"
    /\ UNCHANGED <<trigger_vars, probe_vars, protocol_vars, run, pre_processed,
                   sorting_dedup, sorter_folders, analyzer_folders>>
    /\ \/ /\ Raise("compute_error")
          /\ UNCHANGED <<stages, computed_analyzer_result>>
       \/ /\ computed_analyzer_result' =
                [analyzer_result EXCEPT
                    !.extensions = heap[pipeline.protocol].postprocessing]
          /\ stages' = stages \o <<"Analyzed", "Complete">>
          /\ pc' = "idle"
          /\ last_call' = [op |-> "Pipeline", raised |-> "none"]
          /\ sorting_results' = None
          /\ analyzer_result' = None

-----------------------------------------------------------------------------
(* Specifications *)

InitSession(recording, frequency, ids, table, protocol) ==
    /\ heap = [caller |-> protocol, pipeline |-> protocol]
    /\ protocol_built = protocol
    /\ pipeline = None
    /\ pc = "idle"
    /\ run = 0
    /\ stages = <<>>
    /\ pre_processed = None
    /\ sorting_results = None
    /\ sorting_dedup = None
    /\ analyzer_result = None
    /\ computed_analyzer_result = None
    /\ sorter_folders = [f \in {OutputSorterFolder(n) : n \in SorterNames} |-> {}]
    /\ analyzer_folders = [f \in {OutputAnalyzerFolder(n) : n \in SorterNames} |-> {}]
    /\ adc = recording
    /\ adc_frequency = frequency
    /\ trigger_timestamps = <<>>
    /\ timestamps_parameters = NoParameters
    /\ traces_read = {}
    /\ last_call = [op |-> "__init__", raised |-> "none"]
    /\ channel_ids = ids
    /\ probe_dataframe = table
    /\ probe = NoProbe
    /\ recording_probe = NoProbe

\* The recording and the probe of a 2-channel session.
DefaultChannelIds == <<Id("str", 1), Id("str", 2)>>
DefaultProbeTable ==
    [k \in 1..3 |-> [contact_ids |-> Id("str", k - 1),
                     device_channel_indices |-> 3 - k, x |-> 10 * k]]
DefaultRecording == <<<<40000, 40000, 30000, 30000, 40000, 40000>>>>

\* Trigger detection on every recording and configuration within the bounds.
InitTrigger ==
    \E r \in WideRecordings, f \in Frequencies :
        InitSession(r, f, DefaultChannelIds, DefaultProbeTable, Protocol(400, 5000))
NextTrigger == \E p \in WideParameters : generate_trigger_timestamps(p)
SpecTrigger == InitTrigger /\ [][NextTrigger]_vars

\* Probe alignment on every probe table and channel list within the bounds.
InitProbe ==
    \E ids \in ChannelIdLists, table \in ProbeTables :
        InitSession(DefaultRecording, 1000, ids, table, Protocol(400, 5000))
NextProbe == associate_probe
SpecProbe == InitProbe /\ [][NextProbe]_vars

\* The session of the workflow script: trigger detection, probe alignment and
\* pipeline runs in any order.
MainRecordings ==
    {DefaultRecording,
     <<<<40000, 30000, 40000, 30000>>, <<40000, 40000, 40000, 40000>>>>}
MainParameters ==
    {TimestampsParameters(Trigger(35000, c[1], 0), c[2]) :
        c \in {<<-1, 0>>, <<-1, 1>>, <<0, 0>>}}
MainProbeTables ==
    {DefaultProbeTable,
     [k \in 1..1 |-> [contact_ids |-> Id("int", k),
                      device_channel_indices |-> k - 1, x |-> 10 * k]]}

\* Each recording folder is analysed with its own protocol.
MainSessions ==
    {s \in MainRecordings \X CallerProtocols :
        (Len(s[1]) = 1) <=> (s[2] = Protocol(400, 5000))}

Init ==
    \E s \in MainSessions, table \in MainProbeTables :
        InitSession(s[1], 1000, DefaultChannelIds, table, s[2])

Next ==
    \/ \E p \in MainParameters : generate_trigger_timestamps(p)
    \/ associate_probe
    \/ \E sorter \in Sorters : Pipeline_init(sorter)
    \/ remove_artifacts
    \/ apply_preprocessing
    \/ run_sorter
    \/ remove_duplicated_spikes
    \/ create_sorting_analyzer
    \/ compute

Spec == Init /\ [][Next]_vars

-----------------------------------------------------------------------------
(* Vocabulary of the properties of trigger detection *)

\* The last call was generate_trigger_timestamps and it returned.
DetectionReturned ==
    last_call = [op |-> "generate_trigger_timestamps", raised |-> "none"]

ConfiguredTrigger == timestamps_parameters.trigger
ConfiguredChannel == timestamps_parameters.trigger_channel_index
ConfiguredSignal == adc[ConfiguredChannel + 1]

\* 1 when sample k (0-based) of the configured channel is strictly below the threshold.
IsUnder(k) == IF ConfiguredSignal[k + 1] < ConfiguredTrigger.threshold THEN 1 ELSE 0

\* The 0-based sample indices i with under[i+1] - under[i] = edge.
CrossingIndices ==
    {i \in 0..(Len(ConfiguredSignal) - 2) : IsUnder(i + 1) - IsUnder(i) = ConfiguredTrigger.edge}

TimeOfSample(i) == (i * 1000000) \div adc_frequency

CrossingTimes == {TimeOfSample(i) : i \in CrossingIndices}

Max(S) == CHOOSE x \in S : \A y \in S : y <= x
Min(S) == CHOOSE x \in S : \A y \in S : x <= y

\* C1: after generate_trigger_timestamps returns with min_interval > 0, every
\* pair of adjacent stored trigger timestamps is at least min_interval apart.
C1_AdjacentAtLeastMinInterval ==
    (DetectionReturned /\ ConfiguredTrigger.min_interval > 0) =>
        \A k \in 1..(Len(trigger_timestamps) - 1) :
            trigger_timestamps[k + 1] - trigger_timestamps[k]
                >= ConfiguredTrigger.min_interval

\* A detection with min_interval > 0 that dropped a candidate and kept two.
C1_Witness ==
    /\ DetectionReturned
    /\ ConfiguredTrigger.min_interval > 0
    /\ Len(trigger_timestamps) >= 2
    /\ Cardinality(CrossingTimes) > Len(trigger_timestamps)

\* C2: for every trigger configuration (min_interval = 0 included) the stored
\* timestamps are strictly ascending, and they are empty when the signal has
\* no crossing of the configured polarity.
C2_StrictlyAscending ==
    DetectionReturned =>
        /\ \A j, k \in 1..Len(trigger_timestamps) :
                j < k => trigger_timestamps[j] < trigger_timestamps[k]
        /\ (CrossingIndices = {} => trigger_timestamps = <<>>)

\* A detection without filtering that stored several crossings.
C2_Witness ==
    /\ DetectionReturned
    /\ ConfiguredTrigger.min_interval = 0
    /\ Len(trigger_timestamps) >= 3

\* C3: debouncing is a greedy forward scan: the first candidate is kept, a later
\* candidate is kept iff it is at least min_interval after the last kept
\* timestamp before it, and with min_interval = 0 every candidate is kept.
C3_GreedyForwardScan ==
    DetectionReturned =>
        LET kept == Elements(trigger_timestamps)
            mi == ConfiguredTrigger.min_interval
        IN  /\ kept \subseteq CrossingTimes
            /\ Cardinality(kept) = Len(trigger_timestamps)
            /\ mi = 0 => kept = CrossingTimes
            /\ (mi > 0 /\ CrossingTimes # {}) =>
                 /\ Min(CrossingTimes) \in kept
                 /\ \A c \in CrossingTimes \ {Min(CrossingTimes)} :
                        c \in kept <=>
                            c - Max({t \in kept : t < c}) >= mi

\* min_interval of 10 ms, a crossing kept at 0 and the next one 1 ms later dropped.
C3_Witness ==
    /\ DetectionReturned
    /\ ConfiguredTrigger.min_interval = 10000
    /\ {0, 1000} \subseteq CrossingTimes
    /\ trigger_timestamps = <<0>>

\* The recording and configuration of the worked example: threshold=35000,
\* edge=-1, min_interval=0 on [40000, 40000, 30000, 30000, 40000, 40000] at 1000 Hz.
ExampleDetectionReturned ==
    /\ DetectionReturned
    /\ adc = <<<<40000, 40000, 30000, 30000, 40000, 40000>>>>
    /\ adc_frequency = 1000
    /\ timestamps_parameters = TimestampsParameters(Trigger(35000, -1, 0), 0)

C5_CandidateIffEdge ==
    DetectionReturned =>
        /\ traces_read = {ConfiguredChannel}
        /\ Elements(trigger_timestamps) \subseteq CrossingTimes
        /\ ConfiguredTrigger.min_interval = 0 =>
                Elements(trigger_timestamps) = CrossingTimes

\* A detection on the second channel of a recording whose channels differ,
\* with a sample equal to the threshold.
C5_Witness ==
    /\ DetectionReturned
    /\ ConfiguredChannel = 1
    /\ adc[1] # adc[2]
    /\ ConfiguredTrigger.min_interval = 0
    /\ trigger_timestamps # <<>>
    /\ \E k \in 1..Len(ConfiguredSignal) : ConfiguredSignal[k] = ConfiguredTrigger.threshold

\* C6: with trigger_channel_index negative or >= the number of ADC channels the
\* call fails with the range error and reads no sample, for any channel count.
C6_OutOfRangeFails ==
    (/\ last_call.op = "generate_trigger_timestamps"
     /\ ConfiguredChannel \notin 0..(Len(adc) - 1)) =>
        /\ last_call.raised = "range_error"
        /\ traces_read = {}

\* The index equal to the channel count, on a recording that has channels.
C6_Witness ==
    /\ last_call = [op |-> "generate_trigger_timestamps", raised |-> "range_error"]
    /\ Len(adc) > 0
    /\ ConfiguredChannel = Len(adc)

-----------------------------------------------------------------------------
(* Vocabulary of the properties of probe alignment *)

AlignmentReturned == last_call = [op |-> "associate_probe", raised |-> "none"]
AlignmentFailed == last_call = [op |-> "associate_probe", raised |-> "alignment_error"]

ChannelIdStrings == {ToStr(channel_ids[k]) : k \in 1..Len(channel_ids)}

\* The rows of the caller's probe table whose contact is a channel of the recording.
MatchingRows == {r \in Elements(probe_dataframe) : ToStr(r.contact_ids) \in ChannelIdStrings}
MatchingContacts == {ToStr(r.contact_ids) : r \in MatchingRows}

\* The device_channel_indices the caller's table gives the contact at position x.
OriginalIndex(x) ==
    (CHOOSE r \in Elements(probe_dataframe) : r.x = x).device_channel_indices

\* C7: when alignment succeeds the aligned table holds exactly the probe rows
\* whose string-normalized contact_id is a channel id, one row per contact_id,
\* and device_channel_indices is 0..n-1 in ascending order of the original
\* device_channel_indices.
C7_AlignedTable ==
    AlignmentReturned =>
        LET aligned == probe.table
        IN  /\ probe.kind = "aligned"
            /\ recording_probe = probe
            /\ {r.contact_ids : r \in Elements(aligned)} = MatchingContacts
            /\ \A j, k \in 1..Len(aligned) :
                    j # k => aligned[j].contact_ids # aligned[k].contact_ids
            /\ \A k \in 1..Len(aligned) :
                    \E r \in MatchingRows :
                        /\ r.x = aligned[k].x
                        /\ ToStr(r.contact_ids) = aligned[k].contact_ids
            /\ \A k \in 1..Len(aligned) : aligned[k].device_channel_indices = k - 1
            /\ \A j, k \in 1..Len(aligned) :
                    OriginalIndex(aligned[j].x) < OriginalIndex(aligned[k].x) =>
                        aligned[j].device_channel_indices < aligned[k].device_channel_indices

\* Contacts "0","1","2" wired to 0, 2, 1 and channel ids "1","2": two rows, contact
\* "2" renumbered 0 and contact "1" renumbered 1, contact "0" left out.
C7_Witness ==
    /\ AlignmentReturned
    /\ channel_ids = <<Id("str", 1), Id("str", 2)>>
    /\ [k \in 1..Len(probe_dataframe) |-> probe_dataframe[k].contact_ids]
            = <<Id("str", 0), Id("str", 1), Id("str", 2)>>
    /\ [k \in 1..Len(probe_dataframe) |-> probe_dataframe[k].device_channel_indices]
            = <<0, 2, 1>>
    /\ [k \in 1..Len(probe.table) |-> probe.table[k].contact_ids]
            = <<Id("str", 2), Id("str", 1)>>
    /\ [k \in 1..Len(probe.table) |-> probe.table[k].device_channel_indices] = <<0, 1>>

\* C8: whenever the number of distinct probe contacts matching the channel ids
\* differs from len(channel_ids), alignment fails with the alignment error and no
\* aligned probe is attached to the amplifier stream.
C8_MismatchFails ==
    (/\ last_call.op = "associate_probe"
     /\ Cardinality(MatchingContacts) # Len(channel_ids)) =>
        /\ AlignmentFailed
        /\ recording_probe = NoProbe
        /\ probe.kind # "aligned"

\* 3 matching contacts for 4 channels.
C8_Witness ==
    /\ AlignmentFailed
    /\ Len(channel_ids) = 4
    /\ Cardinality(MatchingContacts) = 3

-----------------------------------------------------------------------------
(* Vocabulary of the properties of the pipeline *)

\* The running construction is past __remove_artifacts.
PastInjection ==
    pc \in {"apply_preprocessing", "run_sorter", "remove_duplicated_spikes",
            "create_sorting_analyzer", "compute"}

\* The running construction is past the preprocessing step.
PastPreprocessing ==
    pc \in {"run_sorter", "remove_duplicated_spikes", "create_sorting_analyzer", "compute"}

PipelinePreprocessing == heap[pipeline.protocol].preprocessing

\* C9: a pipeline run has the remove_artifacts step iff the session's
\* trigger_timestamps are non-empty; the step then has mode "zeros" and
\* list_triggers equal to the session's timestamps, and it is in the
\* preprocessing that was applied.
C9_ArtifactStepIffTriggers ==
    /\ PastInjection =>
        /\ HasKey(PipelinePreprocessing, "remove_artifacts") <=> trigger_timestamps # <<>>
        /\ HasKey(PipelinePreprocessing, "remove_artifacts") =>
              DictGet(PipelinePreprocessing, "remove_artifacts")
                  = [list_triggers |-> trigger_timestamps, mode |-> "zeros"]
    /\ PastPreprocessing =>
        /\ pre_processed.run = run
        /\ pre_processed.steps = PipelinePreprocessing

\* The second run, on a session whose triggers were recomputed to none, left
\* the step out; the first run had applied it.
C9_Witness ==
    /\ pc = "apply_preprocessing"
    /\ run = 2
    /\ trigger_timestamps = <<>>
    /\ ~HasKey(PipelinePreprocessing, "remove_artifacts")
    /\ pre_processed # None
    /\ pre_processed.run = 1
    /\ HasKey(pre_processed.steps, "remove_artifacts")

\* C10: the caller's Protocol is never changed by a pipeline run; the
\* remove_artifacts step is in the Pipeline's own copy only.
C10_CallerProtocolUnchanged ==
    /\ heap["caller"] = protocol_built
    /\ ~HasKey(heap["caller"].preprocessing, "remove_artifacts")
    /\ (PastInjection /\ trigger_timestamps # <<>>) =>
            HasKey(heap["pipeline"].preprocessing, "remove_artifacts")

\* Two constructions with triggers, the second one failed.
C10_Witness ==
    /\ pc = "idle"
    /\ run = 2
    /\ last_call.op = "Pipeline"
    /\ last_call.raised \notin {"none", "running"}
    /\ HasKey(heap["pipeline"].preprocessing, "remove_artifacts")
    /\ computed_analyzer_result # None


-----------------------------------------------------------------------------
(* Vocabulary of the properties of a pipeline run *)

\* The last operation on the session is a pipeline construction that raised.
PipelineFailed ==
    /\ last_call.op = "Pipeline"
    /\ last_call.raised \notin {"none", "running"}

\* The last operation on the session is a pipeline construction that returned.
PipelineSucceeded ==
    /\ last_call.op = "Pipeline"
    /\ last_call.raised = "none"

\* The construction failed in si.create_sorting_analyzer.
AnalyzerConstructionFailed ==
    /\ PipelineFailed
    /\ stages[Len(stages)] = "Deduplicated"
    /\ last_call.from # "compute_error"

\* x is not an object produced by the current run.
NotOfThisRun(x) == x = None \/ x.run # run

\* C11: when the construction of the analysis object fails on a curated sorting
\* with zero spikes, the pipeline raises its own empty-sorting error, not the
\* library's error; every other construction error reaches the caller as the
\* library raised it; in both cases the run does not set the session's
\* analysis result.
C11_EmptySortingErrorTranslated ==
    AnalyzerConstructionFailed =>
        /\ sorting_dedup.run = run
        /\ sorting_dedup.spikes = 0 =>
              /\ last_call.raised = "RuntimeError: sorting has no spikes"
              /\ last_call.raised # last_call.from
        /\ sorting_dedup.spikes # 0 => last_call.raised = last_call.from
        /\ NotOfThisRun(computed_analyzer_result)

\* A run on a sorting with spikes failed with the library's other ValueError,
\* after an earlier run had stored an analysis result.
C11_Witness ==
    /\ AnalyzerConstructionFailed
    /\ sorting_dedup.spikes = 1
    /\ last_call.raised = "ValueError: other"
    /\ computed_analyzer_result # None
    /\ run = 2

\* The stages of a complete run, in order.
StageOrder ==
    <<"Configured", "ArtifactsInjected", "Preprocessed", "Sorted", "Deduplicated",
      "Analyzed", "Complete">>

\* Number of stages reached when the construction is at each position.
StagesReachedAt ==
    [remove_artifacts |-> 1, apply_preprocessing |-> 2, run_sorter |-> 3,
     remove_duplicated_spikes |-> 4, create_sorting_analyzer |-> 5, compute |-> 5]

\* C12: the stages a pipeline run has reached are a prefix of Configured,
\* ArtifactsInjected, Preprocessed, Sorted, Deduplicated, Analyzed, Complete,
\* each position of the run having reached exactly the stages before it; a run
\* that failed has stopped, and no object of a stage after the failed one is
\* of that run.
C12_StagesArePrefix ==
    /\ \E n \in 0..Len(StageOrder) : stages = SubSeq(StageOrder, 1, n)
    /\ pc # "idle" =>
          /\ last_call = [op |-> "Pipeline", raised |-> "running"]
          /\ Len(stages) = StagesReachedAt[pc]
          /\ Len(stages) >= 3 => pre_processed.run = run
          /\ Len(stages) >= 4 => sorting_results.run = run
          /\ Len(stages) >= 5 => sorting_dedup.run = run
    /\ PipelineSucceeded => (pc = "idle" /\ stages = StageOrder)
    /\ PipelineFailed =>
          /\ pc = "idle"
          /\ Len(stages) \in 2..5
          /\ Len(stages) < 3 => NotOfThisRun(pre_processed)
          /\ Len(stages) < 4 => \A f \in sorter_folders[pipeline.output_sorter_folder] :
                                    f.run = run => ~f.complete
          /\ Len(stages) < 5 => NotOfThisRun(sorting_dedup)
          /\ NotOfThisRun(computed_analyzer_result)

\* The second run stopped at the sorter; the first one had completed.
C12_Witness ==
    /\ PipelineFailed
    /\ last_call.raised = "sorter_error"
    /\ stages = SubSeq(StageOrder, 1, 3)
    /\ run = 2
    /\ computed_analyzer_result # None
    /\ sorting_dedup.run = 1

\* The output folders that hold files.
OutputLocations ==
    {f \in DOMAIN sorter_folders : sorter_folders[f] # {}}
        \cup {f \in DOMAIN analyzer_folders : analyzer_folders[f] # {}}

\* C13: a run replaces the sorter and analyzer output folders of its sorter
\* name: after a successful run each of the two holds the complete files of
\* that run and nothing else, no folder ever holds files of two runs, and a
\* rerun under the same sorter name writes to the same two locations.
C13_RerunReplacesFolders ==
    /\ PipelineSucceeded =>
          /\ sorter_folders[pipeline.output_sorter_folder] = Files(run, TRUE)
          /\ analyzer_folders[pipeline.output_analyzer_folder] = Files(run, TRUE)
          /\ pipeline.output_sorter_folder = OutputSorterFolder(pipeline.sorter.name)
          /\ pipeline.output_analyzer_folder = OutputAnalyzerFolder(pipeline.sorter.name)
    /\ \A f \in DOMAIN sorter_folders : Cardinality(sorter_folders[f]) <= 1
    /\ \A f \in DOMAIN analyzer_folders : Cardinality(analyzer_folders[f]) <= 1
    /\ \A f, g \in DOMAIN sorter_folders :
          (f # g /\ sorter_folders[f] # {} /\ sorter_folders[g] # {}) =>
              sorter_folders[f] # sorter_folders[g]

\* The second successful run under one sorter name: the two folders of that
\* name are the only output locations.
C13_Witness ==
    /\ PipelineSucceeded
    /\ run = 2
    /\ pipeline.sorter.name = "tridesclous2"
    /\ OutputLocations = {OutputSorterFolder("tridesclous2"),
                          OutputAnalyzerFolder("tridesclous2")}


-----------------------------------------------------------------------------
(* Vocabulary of the properties of the session's fields *)

\* The step is a generate_trigger_timestamps call that ends with the range error.
DetectionFailsOutOfRange ==
    last_call' = [op |-> "generate_trigger_timestamps", raised |-> "range_error"]

\* p is unset, or an aligned probe with one contact per amplifier channel.
UnsetOrAligned(p) ==
    \/ p = NoProbe
    \/ /\ p.kind = "aligned"
       /\ Len(p.table) = Len(channel_ids)

\* C14: the Trigger of the stored timestamp parameters, the one detection ran
\* with, has edge +1 or -1.
C14_EdgeIsPlusOrMinusOne ==
    timestamps_parameters.set => timestamps_parameters.trigger.edge \in {-1, 1}

\* C15: when the sorter has returned, the backend was called with the Sorter's
\* name, the preprocessed recording of this run and the sorter output folder,
\* and it sorted with the Sorter's param, edited by the caller or not.
C15_BackendRunsWithSorterParam ==
    pc = "remove_duplicated_spikes" =>
        /\ sorting_results.arguments.sorter_name = pipeline.sorter.name
        /\ sorting_results.arguments.recording = pre_processed
        /\ pre_processed.run = run
        /\ sorting_results.arguments.folder = pipeline.output_sorter_folder
        /\ sorting_results.params = pipeline.sorter.param

\* C16: no operation changes the table of the caller's Probe object: the rows,
\* their contact_ids and their device_channel_indices stay as loaded.
C16_SourceTableUnchanged ==
    [][/\ Len(probe_dataframe') = Len(probe_dataframe)
       /\ \A k \in 1..Len(probe_dataframe) :
            /\ probe_dataframe'[k].contact_ids = probe_dataframe[k].contact_ids
            /\ probe_dataframe'[k].device_channel_indices
                  = probe_dataframe[k].device_channel_indices]_vars

\* C17: a generate_trigger_timestamps call that fails with the range error
\* changes neither trigger_timestamps nor the stored timestamp parameters.
C17_FailedDetectionChangesNothing ==
    [][DetectionFailsOutOfRange =>
          /\ trigger_timestamps' = trigger_timestamps
          /\ timestamps_parameters' = timestamps_parameters]_vars

\* C18: the session's probe is always unset or an aligned probe with as many
\* contacts as the recording has channels, and so is the probe a pipeline run
\* attaches to the preprocessed recording.
C18_ProbeUnsetOrAligned ==
    /\ UnsetOrAligned(probe)
    /\ (pc = "apply_preprocessing" /\ probe # NoProbe) => probe.kind = "aligned"
    /\ pre_processed # None => UnsetOrAligned(pre_processed.probe)

\* C19: between pipeline runs the session's curated sorting and analysis
\* result are both unset, or both set by the same run.
C19_SortingAndAnalysisOfSameRun ==
    pc = "idle" =>
        \/ sorting_dedup = None /\ computed_analyzer_result = None
        \/ /\ sorting_dedup # None
           /\ computed_analyzer_result # None
           /\ sorting_dedup.run = computed_analyzer_result.run

=============================================================================
